---- MODULE Spec2Model ----
(***************************************************************************)
(* Model of cmd/function/deploy.go of openfx-cli: the "function deploy"   *)
(* command.  preRunDeploy validates the flags and loads the configuration, *)
(* runDeploy ranges over the configured functions, pushes each image and   *)
(* calls deploy, which resolves the environment (readFiles, mergeMap),     *)
(* builds the grpc.DeployConfig and submits it.                            *)
(*                                                                         *)
(* Everything the program does to the outside world (docker push, file     *)
(* reads, grpc.Deploy, log and print lines) is appended to `trace`, in the *)
(* order the code does it.                                                 *)
(***************************************************************************)
EXTENDS Integers, Sequences, FiniteSets, TLC

\* ------------------------------------------------------------------ bounds
\* Largest number of functions in one configuration file.
MaxFns == 2
\* Largest number of environment files one function lists.
MaxFiles == 2
\* Largest number of secrets one function declares.
MaxSecrets == 2

\* ------------------------------------------------------------ value domains
FnNames == <<"fa", "fb", "fc", "fd">>
Images == <<"img-a", "img-b", "img-c", "img-d">>
Paths == <<"p1", "p2", "p3", "p4">>
Keys == {"K", "X"}
Vals == {"1", "2"}
SecretNames == {"regcred", "dbpass"}

\* A Go map[string]string is a function on the set of its keys.
EmptyMap == [k \in {} |-> ""]
Maps == UNION {[D -> Vals] : D \in SUBSET Keys}

\* Sequences over S of length at most n.
SeqsUpTo(S, n) == UNION {[1..k -> S] : k \in 0..n}

\* The set a sequence ranges over.
Range(s) == {s[i] : i \in 1..Len(s)}

\* ------------------------------------------------------------------ errors
\* An error value: its kind and what its message text mentions.
NoError == [type |-> "nil", subject |-> ""]
\* errors.New(`one of "--update" flag or "--replace" flag must be false\n`)
FlagConflictError == [type |-> "FlagConflict", subject |-> "--update --replace"]
\* errors.New("please provide a '-f' flag for function creation\n")
NoConfigFileError == [type |-> "NoConfigFile", subject |-> "-f"]
\* whatever parseConfigFile returns when the configuration cannot be loaded
ConfigParseError == [type |-> "ConfigParse", subject |-> "config"]
\* errors.New("")
EmptyError == [type |-> "Empty", subject |-> ""]
\* the error of `docker push <image>`: the command is all the builder is given
PushError(image) == [type |-> "PushError", subject |-> image]
\* ioutil.ReadFile's *PathError: "open <file>: ..."
FileReadError(file) == [type |-> "FileReadError", subject |-> file]
\* yaml.Unmarshal's error: it is given the bytes only
ParseError == [type |-> "ParseError", subject |-> ""]
\* the error of grpc.Deploy: it is given the request, and may mention its function
RemoteDeployError(name) == [type |-> "RemoteDeployError", subject |-> name]

\* --------------------------------------------------------------- the state
VARIABLES
  update,        \* --update flag
  replace,       \* --replace flag
  deployVerbose, \* --deployverbose flag
  minreplicas,   \* --min flag
  maxreplicas,   \* --max flag
  token,         \* --token flag
  configFile,    \* --config flag: path of the YAML configuration
  gateway,       \* gateway address, settled by preRunDeploy
  declared,      \* the functions the YAML file declares, in the file's order
  disk,          \* the environment files on disk: path -> contents
  fxServices,    \* the loaded configuration: Functions is a Go map
  remaining,     \* keys of fxServices.Functions the range loop has yet to visit
  function,      \* the loop variable of runDeploy (a copy, Name set)
  err,           \* the error preRunDeploy / runDeploy returned
  exitCode,      \* the exit status of the process, -1 while it runs
  trace,         \* every external call and output line, in order
  pc             \* where the command is

vars == <<update, replace, deployVerbose, minreplicas, maxreplicas, token,
          configFile, gateway, declared, disk, fxServices, remaining,
          function, err, exitCode, trace, pc>>

flagVars == <<update, replace, deployVerbose, minreplicas, maxreplicas, token,
              configFile>>

inputVars == <<declared, disk>>

\* One entry of trace.
Ev(op, fn, arg) == [op |-> op, fn |-> fn, arg |-> arg]

\* --------------------------------------------------------- file contents
\* What a path holds: nothing (ReadFile fails), bytes that are no YAML
\* mapping (Unmarshal fails), or an EnvironmentFile with its mapping.
MissingFile == [status |-> "missing", Environment |-> EmptyMap]
InvalidFile == [status |-> "invalid", Environment |-> EmptyMap]
EnvFile(m) == [status |-> "ok", Environment |-> m]
FileContents == {MissingFile, InvalidFile} \cup {EnvFile(m) : m \in Maps}

\* ----------------------------------------------------------- config.Function
\* The function named by position i of the YAML file, with the given
\* variable parts; Name is empty until runDeploy fills it in.
Function(i, env, envFiles, labels, maintainer, description, secrets) ==
  [Name |-> "",
   Image |-> Images[i],
   Environment |-> env,
   EnvironmentFile |-> envFiles,
   Labels |-> labels,
   Maintainer |-> maintainer,
   Description |-> description,
   Constraints |-> <<"node.role==worker">>,
   Secrets |-> secrets,
   Limits |-> "limits",
   Requests |-> "requests",
   RegistryURL |-> "registry:5000"]

\* The function before the loop picks one.
NoFunction == Function(1, EmptyMap, <<>>, <<>>, "", "", <<>>)

\* A *map[string]string: <<>> is the nil pointer, <<m>> points to m.
NilLabels == <<>>

\* ------------------------------------------------------------ preRunDeploy
\* updateAndReplace with the second flag negated.
updateAndReplace_notReplace(u, r) == u /\ ~r

\* if update && replace
updateAndReplace(u, r) == u /\ r

\* if configFile == ""
noConfigFile(cf) == cf = ""

\* What parseConfigFile leaves in fxServices.Functions: a Go map from each
\* declared name to its function.  The map keeps no order.
parsedFunctions(decl) ==
  [n \in {FnNames[i] : i \in 1..Len(decl)} |->
     decl[CHOOSE i \in 1..Len(decl) : FnNames[i] = n]]

\* The gateway address the YAML file gives.
ConfigGatewayURL == "10.0.0.180:31113"

\* config.GetFxGatewayURL: the --gateway argument when given, else the
\* address of the YAML file.
GetFxGatewayURL(argumentURL, yamlURL) ==
  IF argumentURL # "" THEN argumentURL ELSE yamlURL

\* The exit status main gives the process: non-zero exactly when the
\* command's Execute returned an error.
mainExit(executeErr) == IF executeErr # NoError THEN 1 ELSE 0

\* ----------------------------------------------------------------- readFiles
\* readFailed with the read error dropped.
readFailed_ignored(c) == FALSE

\* readErr != nil
readFailed(c) == c.status = "missing"

\* unmarshalErr != nil
unmarshalFailed(c) == c.status = "invalid"

\* setAll that keeps a key already set.
setAll_keepFirst(envs, m) ==
  [k \in DOMAIN envs \cup DOMAIN m |-> IF k \in DOMAIN envs THEN envs[k] ELSE m[k]]

\* for k, v := range envFile.Environment { envs[k] = v }
setAll(envs, m) ==
  [k \in DOMAIN envs \cup DOMAIN m |-> IF k \in DOMAIN m THEN m[k] ELSE envs[k]]

RECURSIVE readFilesFrom(_, _, _)
\* The loop of readFiles from file number i on, envs being the mapping so
\* far.  read is the number of files ReadFile was called on.
readFilesFrom(files, i, envs) ==
  IF i > Len(files)
  THEN [envs |-> envs, err |-> NoError, read |-> Len(files)]
  ELSE LET c == disk[files[i]] IN
       IF readFailed(c)
       THEN [envs |-> EmptyMap, err |-> FileReadError(files[i]), read |-> i]
       ELSE IF unmarshalFailed(c)
       THEN [envs |-> EmptyMap, err |-> ParseError, read |-> i]
       ELSE readFilesFrom(files, i + 1, setAll(envs, c.Environment))

readFiles(files) == readFilesFrom(files, 1, EmptyMap)

\* The error the read of files[i] ended with, as readFiles saw it.
readOutcome(file) ==
  LET c == disk[file] IN
  IF readFailed(c) THEN FileReadError(file)
  ELSE IF unmarshalFailed(c) THEN ParseError
  ELSE NoError

\* ------------------------------------------------------------------ mergeMap
\* mergeMap with the entries of i kept over those of j.
mergeMap_firstWins(i, j) ==
  [k \in DOMAIN i \cup DOMAIN j |-> IF k \in DOMAIN i THEN i[k] ELSE j[k]]

\* merged gets every entry of i, then every entry of j over it.
mergeMap(i, j) ==
  [k \in DOMAIN i \cup DOMAIN j |-> IF k \in DOMAIN j THEN j[k] ELSE i[k]]

\* inlineAfterMerge of a mergeMap that fills its first argument in place.
inlineAfterMerge_inPlace(i, j) ==
  [k \in DOMAIN i \cup DOMAIN j |-> IF k \in DOMAIN j THEN j[k] ELSE i[k]]

\* What mergeMap leaves in the map passed as i: it writes to merged, a map
\* of its own making, and only reads i.
inlineAfterMerge(i, j) == i

\* -------------------------------------------------------------------- deploy
\* labelMap that never takes the declared labels.
labelMap_dropped(fn) == EmptyMap

\* labelMap := map[string]string{}; if function.Labels != nil { ... }
labelMap(fn) == IF fn.Labels # NilLabels THEN fn.Labels[1] ELSE EmptyMap

\* AnnoMap with both keys set whatever the values.
AnnoMap_always(fn) ==
  [k \in {"maintainer", "desc"} |->
     IF k = "maintainer" THEN fn.Maintainer ELSE fn.Description]

\* AnnoMap: "maintainer" and "desc", each only when non-empty.
AnnoMap(fn) ==
  [k \in (IF fn.Maintainer # "" THEN {"maintainer"} ELSE {})
         \cup (IF fn.Description # "" THEN {"desc"} ELSE {}) |->
     IF k = "maintainer" THEN fn.Maintainer ELSE fn.Description]

\* appendRegcred that skips a secret already listed.
appendRegcred_dedup(secrets) ==
  IF "regcred" \in Range(secrets) THEN secrets ELSE Append(secrets, "regcred")

\* append(function.Secrets, "regcred")
appendRegcred(secrets) == Append(secrets, "regcred")

\* deployConfig with the two replica counts exchanged.
deployConfig_swappedReplicas(gw, fn, allEnvironment, u, r, minr, maxr) ==
  [FxGateway |-> gw,
   FunctionName |-> fn.Name,
   Image |-> fn.Image,
   EnvVars |-> allEnvironment,
   Labels |-> labelMap(fn),
   Annotations |-> AnnoMap(fn),
   Constraints |-> fn.Constraints,
   Secrets |-> appendRegcred(fn.Secrets),
   Limits |-> fn.Limits,
   Requests |-> fn.Requests,
   MinReplicas |-> maxr,
   MaxReplicas |-> minr,
   Update |-> u,
   Replace |-> r]

\* deployConfig with the resource requests left out (the limits twice).
deployConfig_limitsTwice(gw, fn, allEnvironment, u, r, minr, maxr) ==
  [FxGateway |-> gw,
   FunctionName |-> fn.Name,
   Image |-> fn.Image,
   EnvVars |-> allEnvironment,
   Labels |-> labelMap(fn),
   Annotations |-> AnnoMap(fn),
   Constraints |-> fn.Constraints,
   Secrets |-> appendRegcred(fn.Secrets),
   Limits |-> fn.Limits,
   Requests |-> fn.Limits,
   MinReplicas |-> minr,
   MaxReplicas |-> maxr,
   Update |-> u,
   Replace |-> r]

\* The grpc.DeployConfig literal.
deployConfig(gw, fn, allEnvironment, u, r, minr, maxr) ==
  [FxGateway |-> gw,
   FunctionName |-> fn.Name,
   Image |-> fn.Image,
   EnvVars |-> allEnvironment,
   Labels |-> labelMap(fn),
   Annotations |-> AnnoMap(fn),
   Constraints |-> fn.Constraints,
   Secrets |-> appendRegcred(fn.Secrets),
   Limits |-> fn.Limits,
   Requests |-> fn.Requests,
   MinReplicas |-> minr,
   MaxReplicas |-> maxr,
   Update |-> u,
   Replace |-> r]

\* ----------------------------------------------------------------- runDeploy
\* noFunctions with < for <=.
noFunctions_less(fns) == Cardinality(DOMAIN fns) < 0

\* if len(fxServices.Functions) <= 0
noFunctions(fns) == Cardinality(DOMAIN fns) <= 0

\* pushVia with the two branches exchanged.
pushVia_inverted(verbose) == IF verbose THEN "ExecCommand" ELSE "ExecCommandPipe"

\* if deployVerbose: ExecCommandPipe streams the output of the push,
\* ExecCommand keeps it.
pushVia(verbose) == IF verbose THEN "ExecCommandPipe" ELSE "ExecCommand"

\* pushFailed with the push error dropped.
pushFailed_ignored(e) == FALSE

\* if err != nil, after the push
pushFailed(e) == e # NoError

\* deployFailed with the error of deploy dropped.
deployFailed_ignored(e) == FALSE

\* if err != nil, after deploy
deployFailed(e) == e # NoError

\* ------------------------------------------------------------ initial states
\* The environment-file paths the model uses.
UsedPaths == {Paths[i] : i \in 1..MaxFiles}

\* Everything but the flags and inputs, as it is when the command starts.
InitProgram ==
  /\ minreplicas = 1
  /\ maxreplicas = 5
  /\ token = "access-token"
  /\ gateway = ""
  /\ fxServices = [Functions |-> [n \in {} |-> NoFunction], FxGatewayURL |-> ""]
  /\ remaining = {}
  /\ function = NoFunction
  /\ err = NoError
  /\ exitCode = -1
  /\ trace = <<>>
  /\ pc = "preRun"

\* The functions position i may declare in a run of several functions:
\* with no, one or two environment files.
RunFunctions(i) ==
  {Function(i, [k \in {"K"} |-> "1"], files, NilLabels, "", "", <<>>) :
     files \in {<<>>, <<Paths[1]>>, <<Paths[1], Paths[2]>>}}

RECURSIVE RunConfigs(_)
\* The configurations of exactly n functions.
RunConfigs(n) ==
  IF n = 0 THEN {<<>>}
  ELSE {Append(c, f) : c \in RunConfigs(n - 1), f \in RunFunctions(n)}

\* Runs of 0..MaxFns functions under every flag setting; each of the two
\* environment files is missing, invalid or valid.
Init ==
  /\ update \in BOOLEAN
  /\ replace \in BOOLEAN
  /\ deployVerbose \in BOOLEAN
  /\ configFile \in {"", "config.yml"}
  /\ declared \in UNION {RunConfigs(n) : n \in 0..MaxFns}
  /\ \E c \in [{Paths[1], Paths[2]} ->
                 {MissingFile, InvalidFile, EnvFile([k \in {"K"} |-> "2"])}] :
       disk = [p \in UsedPaths |-> IF p \in DOMAIN c THEN c[p] ELSE MissingFile]
  /\ InitProgram

\* One function under the default flags, with every inline environment and
\* every contents of up to MaxFiles listed environment files.
InitEnv ==
  /\ update = TRUE
  /\ replace = FALSE
  /\ deployVerbose = FALSE
  /\ configFile = "config.yml"
  /\ \E n \in 0..MaxFiles, env \in Maps :
       \E c \in [1..n -> FileContents] :
         /\ declared = <<Function(1, env, [i \in 1..n |-> Paths[i]], NilLabels, "", "", <<>>)>>
         /\ disk = [p \in UsedPaths |->
                      IF \E i \in 1..n : Paths[i] = p
                      THEN c[CHOOSE i \in 1..n : Paths[i] = p]
                      ELSE MissingFile]
  /\ InitProgram

\* One function without environment files, with every combination of
\* labels, maintainer, description and up to MaxSecrets secrets.
InitBuild ==
  /\ update \in BOOLEAN
  /\ replace \in BOOLEAN
  /\ deployVerbose \in BOOLEAN
  /\ configFile = "config.yml"
  /\ \E labels \in {NilLabels, <<EmptyMap>>, <<[k \in {"tier"} |-> "web"]>>},
        maintainer \in {"", "Alice"},
        description \in {"", "resizes images"},
        secrets \in SeqsUpTo(SecretNames, MaxSecrets) :
       declared = <<Function(1, [k \in {"X"} |-> "1"], <<>>, labels, maintainer, description, secrets)>>
  /\ disk = [p \in UsedPaths |-> MissingFile]
  /\ InitProgram

\* ------------------------------------------------------------------- actions
\* preRunDeploy, and what cobra does with its result: an error ends the
\* command before Run.
PreRunDeploy ==
  /\ pc = "preRun"
  /\ IF updateAndReplace(update, replace)
     THEN /\ err' = FlagConflictError
          /\ pc' = "done"
          /\ exitCode' = mainExit(FlagConflictError)
          /\ UNCHANGED <<fxServices, gateway>>
     ELSE IF noConfigFile(configFile)
     THEN /\ err' = NoConfigFileError
          /\ pc' = "done"
          /\ exitCode' = mainExit(NoConfigFileError)
          /\ UNCHANGED <<fxServices, gateway>>
     ELSE \/ /\ err' = ConfigParseError
             /\ pc' = "done"
             /\ exitCode' = mainExit(ConfigParseError)
             /\ UNCHANGED <<fxServices, gateway>>
          \/ /\ fxServices' = [Functions |-> parsedFunctions(declared),
                               FxGatewayURL |-> ConfigGatewayURL]
             /\ gateway' = GetFxGatewayURL(gateway, ConfigGatewayURL)
             /\ pc' = "runDeploy"
             /\ UNCHANGED <<err, exitCode>>
  /\ UNCHANGED <<flagVars, inputVars, remaining, function, trace>>

\* runDeploy up to the range statement.
RunDeployEnter ==
  /\ pc = "runDeploy"
  /\ IF noFunctions(fxServices.Functions)
     THEN /\ err' = EmptyError
          /\ pc' = "return"
          /\ UNCHANGED remaining
     ELSE /\ remaining' = DOMAIN fxServices.Functions
          /\ pc' = "range"
          /\ UNCHANGED err
  /\ UNCHANGED <<flagVars, inputVars, gateway, fxServices, function, exitCode, trace>>

\* One step of `for name, function := range fxServices.Functions`: Go
\* visits the keys of a map in an order it does not specify.  With the
\* next key, function.Name = name and the "Pushing" line.
RangeNext ==
  /\ pc = "range"
  /\ IF remaining = {}
     THEN /\ pc' = "return"
          /\ UNCHANGED <<remaining, function, trace>>
     ELSE \E name \in remaining :
            /\ remaining' = remaining \ {name}
            /\ function' = [fxServices.Functions[name] EXCEPT !.Name = name]
            /\ trace' = Append(trace, Ev("logPushing", name,
                                 [name |-> name,
                                  image |-> fxServices.Functions[name].Image,
                                  registry |-> fxServices.Functions[name].RegistryURL]))
            /\ pc' = "push"
  /\ UNCHANGED <<flagVars, inputVars, gateway, fxServices, err, exitCode>>

\* Push that tries the push again when it failed.
Push_retry ==
  /\ pc = "push"
  /\ \E pushErr \in {NoError, PushError(function.Image)} :
       LET call == Ev("push", function.Name,
                      [via |-> pushVia(deployVerbose),
                       cmd |-> <<"docker", "push", function.Image>>,
                       err |-> pushErr])
       IN IF pushErr # NoError
          THEN /\ trace' = Append(trace, call)
               /\ pc' = "push"
               /\ UNCHANGED err
          ELSE /\ trace' = trace \o <<call, Ev("logDeploying", function.Name, function.Name)>>
               /\ pc' = "deploy"
               /\ UNCHANGED err
  /\ UNCHANGED <<flagVars, inputVars, gateway, fxServices, remaining, function, exitCode>>

\* docker push of the function's image, through ExecCommandPipe when
\* deployVerbose and ExecCommand otherwise; then the "Deploying" line.
Push ==
  /\ pc = "push"
  /\ \E pushErr \in {NoError, PushError(function.Image)} :
       LET call == Ev("push", function.Name,
                      [via |-> pushVia(deployVerbose),
                       cmd |-> <<"docker", "push", function.Image>>,
                       err |-> pushErr])
       IN IF pushFailed(pushErr)
          THEN /\ trace' = Append(trace, call)
               /\ err' = pushErr
               /\ pc' = "return"
          ELSE /\ trace' = trace \o <<call, Ev("logDeploying", function.Name, function.Name)>>
               /\ pc' = "deploy"
               /\ UNCHANGED err
  /\ UNCHANGED <<flagVars, inputVars, gateway, fxServices, remaining, function, exitCode>>

\* The ReadFile calls readFiles makes for the function's files.
readCalls(fn, n) ==
  [i \in 1..n |-> Ev("ReadFile", fn.Name,
                     [file |-> fn.EnvironmentFile[i],
                      err |-> readOutcome(fn.EnvironmentFile[i])])]

\* deploy(gateway, function, ...), and the URL line when it succeeds.  The
\* loop variable's Environment is the very map the configuration holds, so
\* what mergeMap leaves in its first argument shows in both.
Deploy ==
  /\ pc = "deploy"
  /\ LET fileEnvironment == readFiles(function.EnvironmentFile)
         reads == readCalls(function, fileEnvironment.read)
     IN IF fileEnvironment.err # NoError
        THEN /\ trace' = trace \o reads
             /\ err' = fileEnvironment.err
             /\ pc' = "return"
             /\ UNCHANGED <<fxServices, function>>
        ELSE LET allEnvironment == mergeMap(function.Environment, fileEnvironment.envs)
                 inline == inlineAfterMerge(function.Environment, fileEnvironment.envs)
                 request == deployConfig(gateway, function, allEnvironment, update,
                                         replace, minreplicas, maxreplicas)
             IN /\ fxServices' =
                     [fxServices EXCEPT !.Functions[function.Name].Environment = inline]
                /\ function' = [function EXCEPT !.Environment = inline]
                /\ \E deployErr \in {NoError, RemoteDeployError(function.Name)} :
                  LET call == Ev("Deploy", function.Name,
                                 [request |-> request, token |-> token, err |-> deployErr])
                  IN IF deployFailed(deployErr)
                     THEN /\ trace' = trace \o reads \o <<call>>
                          /\ err' = deployErr
                          /\ pc' = "return"
                     ELSE /\ trace' = trace \o reads \o
                               <<call, Ev("logURL", function.Name,
                                          [gateway |-> gateway, name |-> function.Name])>>
                          /\ pc' = "range"
                          /\ UNCHANGED err
  /\ UNCHANGED <<flagVars, inputVars, gateway, remaining, exitCode>>

\* The Run closure once runDeploy returned: print the error if there is
\* one, and return.  The command's Execute then returns nil.
RunReturn ==
  /\ pc = "return"
  /\ trace' = IF err # NoError THEN Append(trace, Ev("Println", "", err)) ELSE trace
  /\ exitCode' = mainExit(NoError)
  /\ pc' = "done"
  /\ UNCHANGED <<flagVars, inputVars, gateway, fxServices, remaining, function, err>>

Next ==
  \/ PreRunDeploy
  \/ RunDeployEnter
  \/ RangeNext
  \/ Push
  \/ Deploy
  \/ RunReturn

Spec == Init /\ [][Next]_vars

SpecEnv == InitEnv /\ [][Next]_vars

SpecBuild == InitBuild /\ [][Next]_vars

\* The command is one thread and every call it makes returns: a step that
\* can be taken is taken.
FairSpec == Init /\ [][Next]_vars /\ WF_vars(Next)

\* ------------------------------------------------------- reading the trace
TraceIdx == 1..Len(trace)

\* A call of a collaborator: docker push, a file read, grpc.Deploy.
IsCall(e) == e.op \in {"push", "ReadFile", "Deploy"}

\* A call that returned an error.
IsFailedCall(e) == IsCall(e) /\ e.arg.err # NoError

\* The position at which the YAML file declares the function named n.
DeclIndex(n) == CHOOSE i \in 1..Len(FnNames) : FnNames[i] = n

\* The function named n reached Deployed: grpc.Deploy succeeded for it.
Deployed(n) ==
  \E i \in TraceIdx :
    trace[i].op = "Deploy" /\ trace[i].fn = n /\ trace[i].arg.err = NoError

\* The function named n, as the configuration declares it.
DeclaredFunction(n) == declared[DeclIndex(n)]

\* ---------------------------------------------------------------------- C1
\* C1: no DeployConfig handed to grpc.Deploy has Update and Replace both
\* true; and when --update and --replace are both set, the command ends in
\* preRunDeploy with the flag error, without any docker push, file read or
\* grpc.Deploy.
C1_ConflictingFlagsFailFirst ==
  /\ \A i \in TraceIdx :
       trace[i].op = "Deploy" =>
         ~(trace[i].arg.request.Update /\ trace[i].arg.request.Replace)
  /\ (update /\ replace) =>
       /\ \A i \in TraceIdx : ~IsCall(trace[i])
       /\ pc \in {"preRun", "done"}
       /\ pc = "done" => err = FlagConflictError

\* C1 witness: a run with both flags set has ended.
C1_Witness == update /\ replace /\ pc = "done" /\ err = FlagConflictError

\* ---------------------------------------------------------------------- C2
\* C2: after the first failed call (push, file read or grpc.Deploy) there is
\* no further call for any function, and when the command is done exactly
\* one error was printed and its text names the function that failed.
C2_AbortOnFirstFailureNamesFunction ==
  \A i \in TraceIdx :
    IsFailedCall(trace[i]) =>
      /\ \A j \in TraceIdx : j > i => ~IsCall(trace[j])
      /\ pc = "done" =>
           /\ Cardinality({j \in TraceIdx : trace[j].op = "Println"}) = 1
           /\ \A j \in TraceIdx :
                trace[j].op = "Println" => trace[j].arg.subject = trace[i].fn

\* ---------------------------------------------------------------------- C3
\* The files of f that declare key k, by position in f.EnvironmentFile.
FilesDeclaring(f, k) ==
  {i \in 1..Len(f.EnvironmentFile) :
     k \in DOMAIN disk[f.EnvironmentFile[i]].Environment}

\* The greatest element of a non-empty set of numbers.
Max(S) == CHOOSE x \in S : \A y \in S : y <= x

C4_DeclaredOrder ==
  \A i, j \in TraceIdx :
    (i < j /\ IsCall(trace[i]) /\ IsCall(trace[j])) =>
      DeclIndex(trace[i].fn) <= DeclIndex(trace[j].fn)

\* ---------------------------------------------------------------------- C5
\* C5: when the command is done, an error means a non-zero exit status, and
\* exit status zero means every declared function reached Deployed.
C5_ExitStatus ==
  pc = "done" =>
    /\ err # NoError => exitCode # 0
    /\ exitCode = 0 => \A n \in 1..Len(declared) : Deployed(FnNames[n])

\* ---------------------------------------------------------------------- C6
\* C6: the Secrets of every request are the function's declared secrets,
\* in order, followed by one "regcred": one longer than the declared list.
C6_SecretsPlusRegcred ==
  \A i \in TraceIdx :
    trace[i].op = "Deploy" =>
      LET declaredSecrets == DeclaredFunction(trace[i].fn).Secrets
          secrets == trace[i].arg.request.Secrets
      IN /\ Len(secrets) = Len(declaredSecrets) + 1
         /\ SubSeq(secrets, 1, Len(declaredSecrets)) = declaredSecrets
         /\ secrets[Len(secrets)] = "regcred"

\* C6 witness: a request was built for a function that already declares
\* "regcred".
C6_Witness ==
  \E i \in TraceIdx :
    /\ trace[i].op = "Deploy"
    /\ "regcred" \in Range(DeclaredFunction(trace[i].fn).Secrets)

\* ---------------------------------------------------------------------- C7
\* C7: the Annotations of every request hold "maintainer" exactly when the
\* maintainer is non-empty, "desc" exactly when the description is
\* non-empty, each with the declared value, and no other key.
C7_Annotations ==
  \A i \in TraceIdx :
    trace[i].op = "Deploy" =>
      LET f == DeclaredFunction(trace[i].fn)
          a == trace[i].arg.request.Annotations
      IN /\ DOMAIN a \subseteq {"maintainer", "desc"}
         /\ "maintainer" \in DOMAIN a <=> f.Maintainer # ""
         /\ "desc" \in DOMAIN a <=> f.Description # ""
         /\ "maintainer" \in DOMAIN a => a["maintainer"] = f.Maintainer
         /\ "desc" \in DOMAIN a => a["desc"] = f.Description

\* C7 witness: a request was built for a function with a maintainer and no
\* description.
C7_Witness ==
  \E i \in TraceIdx :
    /\ trace[i].op = "Deploy"
    /\ DeclaredFunction(trace[i].fn).Maintainer = "Alice"
    /\ DeclaredFunction(trace[i].fn).Description = ""

\* ---------------------------------------------------------------------- C8
\* C8: a configuration that declares no function makes no call at all, and
\* the command ends with an error.
C8_NoFunctionsFails ==
  Len(declared) = 0 =>
    /\ \A i \in TraceIdx : ~IsCall(trace[i])
    /\ pc = "done" => err # NoError

\* C8 witness: runDeploy returned its error for an empty configuration.
C8_Witness == Len(declared) = 0 /\ pc = "done" /\ err = EmptyError

\* ---------------------------------------------------------------------- C9
\* C9: every file read and every grpc.Deploy of a function comes after a
\* successful push of that function, a grpc.Deploy also after a successful
\* read of each of its environment files; a function whose push failed has
\* no file read and no grpc.Deploy.
C9_DeployOnlyAfterPush ==
  /\ \A j \in TraceIdx :
       trace[j].op \in {"ReadFile", "Deploy"} =>
         \E i \in 1..(j - 1) :
           /\ trace[i].op = "push"
           /\ trace[i].fn = trace[j].fn
           /\ trace[i].arg.err = NoError
  /\ \A j \in TraceIdx :
       trace[j].op = "Deploy" =>
         \A p \in Range(DeclaredFunction(trace[j].fn).EnvironmentFile) :
           \E i \in 1..(j - 1) :
             /\ trace[i].op = "ReadFile"
             /\ trace[i].fn = trace[j].fn
             /\ trace[i].arg.file = p
             /\ trace[i].arg.err = NoError
  /\ \A i \in TraceIdx :
       (trace[i].op = "push" /\ trace[i].arg.err # NoError) =>
         \A j \in TraceIdx :
           trace[j].fn = trace[i].fn => trace[j].op \notin {"ReadFile", "Deploy"}

\* C9 witness: one function was deployed after reading its file and
\* another function's push failed.
C9_Witness ==
  /\ \E i \in TraceIdx : trace[i].op = "push" /\ trace[i].arg.err # NoError
  /\ \E i \in TraceIdx : trace[i].op = "ReadFile"
  /\ \E i \in TraceIdx : trace[i].op = "Deploy"

\* --------------------------------------------------------------------- C10
\* The function named n lists a file that is missing or no valid mapping.
HasBadFile(n) ==
  \E p \in Range(DeclaredFunction(n).EnvironmentFile) : disk[p].status # "ok"

\* C10: a function that lists a bad environment file is never submitted
\* to grpc.Deploy; once its deploy step has run, runDeploy has returned the
\* read or parse error; the failed read comes after the function's
\* successful push and is the last call of the run.
C10_BadEnvironmentFileAborts ==
  /\ \A n \in DOMAIN fxServices.Functions :
       HasBadFile(n) =>
         /\ \A i \in TraceIdx : ~(trace[i].op = "Deploy" /\ trace[i].fn = n)
         /\ (\E i \in TraceIdx : trace[i].op = "logDeploying" /\ trace[i].fn = n) =>
              \/ pc = "deploy" /\ function.Name = n
              \/ /\ pc \in {"return", "done"}
                 /\ err.type \in {"FileReadError", "ParseError"}
                 /\ \E i \in TraceIdx :
                      /\ trace[i].op = "ReadFile"
                      /\ trace[i].fn = n
                      /\ trace[i].arg.err = err
  /\ \A i \in TraceIdx :
       (trace[i].op = "ReadFile" /\ trace[i].arg.err # NoError) =>
         /\ \A j \in TraceIdx : j > i => ~IsCall(trace[j])
         /\ \E j \in 1..(i - 1) :
              /\ trace[j].op = "push"
              /\ trace[j].fn = trace[i].fn
              /\ trace[j].arg.err = NoError

\* C10 witness: the run is over after a second environment file failed to
\* load, the first having been read.
C10_Witness ==
  /\ pc = "done"
  /\ \E i, j \in TraceIdx :
       /\ i < j
       /\ trace[i].op = "ReadFile" /\ trace[i].arg.err = NoError
       /\ trace[j].op = "ReadFile" /\ trace[j].arg.err # NoError
\* --------------------------------------------------------------------- C11
\* C11: in every request, a key that no inline declaration sets and that
\* files declare has the value of the last listed file declaring it; a key
\* only the inline environment declares has the inline value; the request
\* has no key that neither declares; and without environment files the
\* request's environment is the inline environment.
C11_LastFileWins ==
  \A i \in TraceIdx :
    trace[i].op = "Deploy" =>
      LET f == DeclaredFunction(trace[i].fn)
          resolved == trace[i].arg.request.EnvVars
          fileKeys == {k \in Keys : FilesDeclaring(f, k) # {}}
      IN /\ DOMAIN resolved = DOMAIN f.Environment \cup fileKeys
         /\ \A k \in fileKeys \ DOMAIN f.Environment :
              resolved[k] =
                disk[f.EnvironmentFile[Max(FilesDeclaring(f, k))]].Environment[k]
         /\ \A k \in DOMAIN f.Environment \ fileKeys : resolved[k] = f.Environment[k]
         /\ Len(f.EnvironmentFile) = 0 => resolved = f.Environment

\* C11 witness: a request was built for a function with two files that
\* give different values to a key the inline environment does not set.
C11_Witness ==
  \E i \in TraceIdx :
    /\ trace[i].op = "Deploy"
    /\ LET f == DeclaredFunction(trace[i].fn) IN
       \E k \in Keys \ DOMAIN f.Environment :
         /\ FilesDeclaring(f, k) = {1, 2}
         /\ disk[f.EnvironmentFile[1]].Environment[k] #
              disk[f.EnvironmentFile[2]].Environment[k]
\* --------------------------------------------------------------------- C12
\* The function named n reached Failed: a call made for it returned an error.
Failed(n) == \E i \in TraceIdx : trace[i].fn = n /\ IsFailedCall(trace[i])

\* The names the configuration declares.
DeclaredNames == {FnNames[i] : i \in 1..Len(declared)}

\* The number of error lines the Run closure printed.
ErrorsPrinted == Cardinality({i \in TraceIdx : trace[i].op = "Println"})

\* Every function is Deployed, none Failed, and no error is reported.
AllDeployed ==
  /\ \A n \in DeclaredNames : Deployed(n) /\ ~Failed(n)
  /\ err = NoError
  /\ ErrorsPrinted = 0

\* Exactly one function is Failed by the last call of the run; every other
\* function that was touched came before it and is Deployed, the rest have
\* no line and no call; one error is reported and it is that call's.
OneFailed ==
  \E i \in TraceIdx :
    /\ IsFailedCall(trace[i])
    /\ \A j \in TraceIdx : IsFailedCall(trace[j]) => j = i
    /\ \A j \in TraceIdx : j > i => trace[j].op = "Println"
    /\ ~Deployed(trace[i].fn)
    /\ \A n \in DeclaredNames \ {trace[i].fn} :
         (\E j \in TraceIdx : trace[j].fn = n) => Deployed(n)
    /\ err = trace[i].arg.err
    /\ ErrorsPrinted = 1

\* The run failed before the first function: the flags conflict, the
\* configuration is not given or not loaded, or it declares no function.
\* Nothing was called and the error is reported.
FailedPrecondition ==
  /\ err \in {FlagConflictError, NoConfigFileError, ConfigParseError, EmptyError}
  /\ \A i \in TraceIdx : trace[i].op = "Println"
  /\ ErrorsPrinted <= 1

\* C12 as stated: when the command is done, either every function is
\* Deployed and no error is reported, or exactly one function Failed,
\* those before it are Deployed, those after it untouched, and one error
\* is reported.
C12_TwoOutcomes == pc = "done" => (AllDeployed \/ OneFailed)

\* C12 amended: every run ends, and when it has ended exactly one of three
\* outcomes holds: all Deployed without error, one function Failed as
\* above, or a precondition failure with no call made and its error
\* reported.
C12_TerminatesInOneOutcome ==
  /\ <>(pc = "done")
  /\ [](pc = "done" =>
          (IF AllDeployed THEN 1 ELSE 0) + (IF OneFailed THEN 1 ELSE 0)
            + (IF FailedPrecondition THEN 1 ELSE 0) = 1)

\* C12 witness: a run that ended with one function Deployed and the next
\* one Failed.
C12_Witness ==
  /\ pc = "done"
  /\ \E n \in DeclaredNames : Deployed(n)
  /\ \E n \in DeclaredNames : Failed(n)
\* --------------------------------------------------------------------- C13
\* The positions of the calls of kind op made for the function named n.
CallsOf(op, n) == {i \in TraceIdx : trace[i].op = op /\ trace[i].fn = n}

\* C13: in one run docker push is called at most once for each function
\* and grpc.Deploy at most once for each function, whatever failed.
C13_NoRetries ==
  \A n \in DeclaredNames :
    /\ Cardinality(CallsOf("push", n)) <= 1
    /\ Cardinality(CallsOf("Deploy", n)) <= 1

\* C13 witness: a run has ended with one function Deployed and a failed
\* push or grpc.Deploy for the next.
C13_Witness ==
  /\ pc = "done"
  /\ \E i \in TraceIdx : IsFailedCall(trace[i]) /\ trace[i].op \in {"push", "Deploy"}
  /\ \E n \in DeclaredNames : Deployed(n)
\* --------------------------------------------------------------------- C14
\* The run-level values: gateway address, replica counts, mode flags.
runLevel == <<gateway, minreplicas, maxreplicas, update, replace>>

\* C14: every request carries the run's gateway address, replica counts
\* and mode flags, and once preRunDeploy has settled them no step of the
\* run changes them.
C14_RunLevelValues ==
  /\ [](\A i \in TraceIdx :
          trace[i].op = "Deploy" =>
            LET q == trace[i].arg.request IN
            <<q.FxGateway, q.MinReplicas, q.MaxReplicas, q.Update, q.Replace>> = runLevel)
  /\ [][pc # "preRun" => runLevel' = runLevel]_vars

\* C14 witness: two functions were submitted in one run.
C14_Witness ==
  \E i, j \in TraceIdx :
    /\ trace[i].op = "Deploy"
    /\ trace[j].op = "Deploy"
    /\ trace[i].fn # trace[j].fn
\* --------------------------------------------------------------------- C15
\* Some entry of kind op for function n stands before position j.
Before(op, n, j) ==
  \E i \in 1..(j - 1) : trace[i].op = op /\ trace[i].fn = n

\* C15: for each function the "Pushing" line comes before the push; the
\* "Deploying" line comes after a successful push and before every file
\* read and the grpc.Deploy; the URL line of gateway and name is there
\* exactly when the function's grpc.Deploy succeeded, and after it.
C15_OutputOrder ==
  /\ \A j \in TraceIdx :
       LET e == trace[j] IN
       /\ e.op = "push" => Before("logPushing", e.fn, j)
       /\ e.op = "logDeploying" =>
            \E i \in 1..(j - 1) :
              trace[i].op = "push" /\ trace[i].fn = e.fn /\ trace[i].arg.err = NoError
       /\ e.op \in {"ReadFile", "Deploy"} => Before("logDeploying", e.fn, j)
       /\ e.op = "logURL" =>
            /\ e.arg = [gateway |-> gateway, name |-> e.fn]
            /\ \E i \in 1..(j - 1) :
                 trace[i].op = "Deploy" /\ trace[i].fn = e.fn /\ trace[i].arg.err = NoError
  /\ \A n \in DeclaredNames :
       /\ Deployed(n) <=> \E j \in TraceIdx : trace[j].op = "logURL" /\ trace[j].fn = n
       /\ Cardinality(CallsOf("logURL", n)) <= 1

\* C15 witness: a run has ended with the URL line of one function and a
\* failed grpc.Deploy of another.
C15_Witness ==
  /\ pc = "done"
  /\ \E j \in TraceIdx : trace[j].op = "logURL"
  /\ \E j \in TraceIdx : trace[j].op = "Deploy" /\ trace[j].arg.err # NoError
\* --------------------------------------------------------------------- C16
\* The request q carries name, image, constraints, limits and requests of
\* the function named n as the configuration declares them.
CopiesFunctionFields(q, n) ==
  /\ q.FunctionName = n
  /\ q.Image = DeclaredFunction(n).Image
  /\ q.Constraints = DeclaredFunction(n).Constraints
  /\ q.Limits = DeclaredFunction(n).Limits
  /\ q.Requests = DeclaredFunction(n).Requests

\* C16 as stated: every request carries the function's name, image,
\* constraints, limits, requests and registry URL.
C16_CopiesFieldsAndRegistry ==
  \A i \in TraceIdx :
    trace[i].op = "Deploy" =>
      LET q == trace[i].arg.request IN
      /\ CopiesFunctionFields(q, trace[i].fn)
      /\ "RegistryURL" \in DOMAIN q
      /\ q.RegistryURL = DeclaredFunction(trace[i].fn).RegistryURL

\* C16 amended: every request carries the function's name, image,
\* constraints, limits and requests; it has no registry URL, which only
\* the "Pushing" line shows.
C16_CopiesFields ==
  /\ \A i \in TraceIdx :
       trace[i].op = "Deploy" =>
         LET q == trace[i].arg.request IN
         /\ CopiesFunctionFields(q, trace[i].fn)
         /\ "RegistryURL" \notin DOMAIN q
  /\ \A i \in TraceIdx :
       trace[i].op = "logPushing" =>
         trace[i].arg.registry = DeclaredFunction(trace[i].fn).RegistryURL

\* C16 witness: the request of the second declared function was submitted.
C16_Witness ==
  \E i \in TraceIdx : trace[i].op = "Deploy" /\ trace[i].fn = FnNames[2]
\* --------------------------------------------------------------------- C17
\* C17: the Labels of every request are the empty mapping when the
\* function declares none (a nil pointer), and the declared mapping
\* otherwise.
C17_Labels ==
  \A i \in TraceIdx :
    trace[i].op = "Deploy" =>
      LET f == DeclaredFunction(trace[i].fn)
          labels == trace[i].arg.request.Labels
      IN /\ f.Labels = NilLabels => DOMAIN labels = {}
         /\ f.Labels # NilLabels => labels = f.Labels[1]

\* C17 witness: a request was built for a function without labels.
C17_Witness ==
  \E i \in TraceIdx :
    /\ trace[i].op = "Deploy"
    /\ DeclaredFunction(trace[i].fn).Labels = NilLabels
\* --------------------------------------------------------------------- C18
\* C18: whatever steps were taken, every function of the loaded
\* configuration is as the configuration file declares it, and the loop
\* variable differs from it in Name only.
C18_ConfigurationUnchanged ==
  /\ \A n \in DOMAIN fxServices.Functions :
       fxServices.Functions[n] = DeclaredFunction(n)
  /\ pc \in {"push", "deploy"} =>
       function = [DeclaredFunction(function.Name) EXCEPT !.Name = function.Name]

\* C18 witness: a run has ended after a request whose environment differs
\* from the function's inline environment.
C18_Witness ==
  /\ pc = "done"
  /\ \E i \in TraceIdx :
       /\ trace[i].op = "Deploy"
       /\ trace[i].arg.request.EnvVars # DeclaredFunction(trace[i].fn).Environment
\* --------------------------------------------------------------------- C19
\* C19: a failed grpc.Deploy comes after the successful push of its
\* function and is the last call of the run: nothing is called for that
\* function or an earlier one afterwards, and it is the only grpc.Deploy
\* and the only push made for its function.
C19_DeployFailureLeavesPush ==
  \A i \in TraceIdx :
    (trace[i].op = "Deploy" /\ trace[i].arg.err # NoError) =>
      /\ \E j \in 1..(i - 1) :
           /\ trace[j].op = "push"
           /\ trace[j].fn = trace[i].fn
           /\ trace[j].arg.err = NoError
      /\ \A j \in TraceIdx : j > i => trace[j].op = "Println"
      /\ CallsOf("Deploy", trace[i].fn) = {i}
      /\ Cardinality(CallsOf("push", trace[i].fn)) = 1

\* C19 witness: a run has ended with grpc.Deploy failing for the second
\* function processed, the first being Deployed.
C19_Witness ==
  /\ pc = "done"
  /\ \E i \in TraceIdx :
       /\ trace[i].op = "Deploy" /\ trace[i].arg.err # NoError
       /\ \E n \in DeclaredNames \ {trace[i].fn} : Deployed(n)
\* --------------------------------------------------------------------- C20
\* C20: a function the loop has reached has exactly one push once its
\* push step is over; every push goes through ExecCommandPipe when
\* deployVerbose is set and through ExecCommand otherwise; and in either
\* mode a failed push is the last call, its error is what runDeploy
\* returns, and its function gets no grpc.Deploy.
C20_OnePushInFlagMode ==
  /\ \A n \in DeclaredNames :
       (\E i \in TraceIdx : trace[i].op = "logPushing" /\ trace[i].fn = n) =>
         Cardinality(CallsOf("push", n)) =
           IF pc = "push" /\ function.Name = n THEN 0 ELSE 1
  /\ \A i \in TraceIdx :
       trace[i].op = "push" =>
         /\ trace[i].arg.via = "ExecCommandPipe" <=> deployVerbose
         /\ trace[i].arg.via = "ExecCommand" <=> ~deployVerbose
         /\ trace[i].arg.err # NoError =>
              /\ \A j \in TraceIdx : j > i => trace[j].op = "Println"
              /\ pc \in {"return", "done"}
              /\ err = trace[i].arg.err
              /\ CallsOf("Deploy", trace[i].fn) = {}

\* C20 witness: a run in verbose mode has ended on a failed push.
C20_Witness ==
  /\ pc = "done"
  /\ deployVerbose
  /\ \E i \in TraceIdx : trace[i].op = "push" /\ trace[i].arg.err # NoError
====
